---- MODULE Spec2Model ----
(***************************************************************************)
(* normalize_video_audio.py: the workflow of main(), the analyzer          *)
(* get_loudness_stats() and the applier apply_normalization(), over a      *)
(* small filesystem.  Loudness values are in tenths of a LUFS / LU / dB.   *)
(***************************************************************************)
EXTENDS Integers, Sequences, FiniteSets, TLC

\* ------------------------------------------------------------------ bounds
\* number of invocations of the tool that are followed
MaxRuns == 2

\* number of lines of the diagnostic output that are scanned
MaxLines == 4

\* ------------------------------------------------------------- constants
VIDEO_EXTENSIONS == {".mp4", ".mkv", ".mov", ".avi", ".webm"}

\* "I": -16, "LRA": 11, "TP": -1.5 (tenths)
LOUDNESS_TARGETS == [I |-> -160, LRA |-> 110, TP |-> -15]

\* --threshold default 2.0 (tenths)
DefaultThreshold == 20

\* ------------------------------------------------------------------ paths
\* A file name is the sequence of its dot-separated parts, the last one
\* being the suffix: "clip.MP4" is <<"clip", ".MP4">>.
Suffix(p) == p[Len(p)]

Stem(p) == SubSeq(p, 1, Len(p) - 1)

\* str.lower() on the suffixes that occur
Lower(s) ==
  CASE s = ".MP4" -> ".mp4"
    [] s = "Yes" -> "yes"
    [] s = "Y" -> "y"
    [] OTHER -> s

\* file_path.with_suffix(file_path.suffix + ".normalized")
MarkerOf(p) == Stem(p) \o <<Suffix(p), ".normalized">>

\* file_path.with_name(file_path.stem + ".temp_normalized" + file_path.suffix)
TempOf(p) == Stem(p) \o <<".temp_normalized", Suffix(p)>>

Root == <<"clip", ".MP4">>

Notes == <<"notes", ".txt">>

\* a reference video outside the scanned directory
ExternalRef == <<"ref", ".mkv">>

RECURSIVE TempN(_, _)
TempN(p, n) == IF n = 0 THEN p ELSE TempOf(TempN(p, n - 1))

\* every path a run can touch: run r reads names of depth < r + 1 and
\* writes temporary names of depth <= r + 1
Videos == {TempN(Root, k) : k \in 0..(MaxRuns + 1)}

Paths == Videos \cup {MarkerOf(v) : v \in Videos} \cup {Notes}

\* ---------------------------------------------------------------- contents
Absent == [kind |-> "absent", of |-> <<>>, norm |-> 0]

Dir == [kind |-> "dir", of |-> <<>>, norm |-> 0]

Empty == [kind |-> "file", of |-> <<>>, norm |-> 0]

\* the bytes the file named p holds before anything was normalized
Orig(p) == [kind |-> "file", of |-> p, norm |-> 0]

\* the output of a successful apply pass over content c
Normalized(c) == [kind |-> "file", of |-> c.of, norm |-> c.norm + 1]

\* what a failed apply pass may leave at the output path: a truncated file
Partial == [kind |-> "partial", of |-> <<>>, norm |-> 0]

IsMedia(c) == c.kind = "file" /\ c.of # <<>>

\* ------------------------------------------------- measured values, floats
\* A value of the engine's JSON: a decimal string ("-10.00"), the string
\* "-inf" (silence), or something float() rejects (null, "n/a").
Dec(n) == [k |-> "dec", v |-> n]

NegInfStr == [k |-> "ninf", v |-> 0]

BadValue == [k |-> "bad", v |-> 0]

Fin(n) == [k |-> "fin", v |-> n]

NegInf == [k |-> "ninf", v |-> 0]

PosInf == [k |-> "pinf", v |-> 0]

NaN == [k |-> "nan", v |-> 0]

\* float(x) raises ValueError / TypeError
FloatRaises(j) == j.k = "bad"

\* float(x)
ToFloat(j) == IF j.k = "dec" THEN Fin(j.v) ELSE NegInf

\* a - b on floats
FSub(a, b) ==
  CASE a.k = "nan" \/ b.k = "nan" -> NaN
    [] a.k = "fin" /\ b.k = "fin" -> Fin(a.v - b.v)
    [] a.k = "fin" /\ b.k = "ninf" -> PosInf
    [] a.k = "fin" /\ b.k = "pinf" -> NegInf
    [] a.k = "ninf" /\ b.k = "ninf" -> NaN
    [] a.k = "pinf" /\ b.k = "pinf" -> NaN
    [] OTHER -> a

\* abs(x)
FAbs(x) ==
  CASE x.k = "fin" -> Fin(IF x.v < 0 THEN -x.v ELSE x.v)
    [] x.k = "ninf" -> PosInf
    [] OTHER -> x

\* FLeq with the comparison made strict
FLess(x, t) ==
  CASE x.k = "fin" -> x.v < t
    [] x.k = "ninf" -> TRUE
    [] OTHER -> FALSE

\* x <= t for a finite t
FLeq(x, t) ==
  CASE x.k = "fin" -> x.v <= t
    [] x.k = "ninf" -> TRUE
    [] OTHER -> FALSE

\* ----------------------------------------------------------------- engine
None == <<>>

Some(x) == <<x>>

\* the values "input_i" takes in the engine's JSON
MeasuredI == {Dec(-100), NegInfStr, BadValue}

\* the objects the engine prints: every input_i with a sound rest, and one
\* whose input_lra is not a number
EngineJson ==
  {[input_i |-> i, input_lra |-> Dec(70), input_tp |-> Dec(-20),
    input_thresh |-> Dec(-260), target_offset |-> Dec(3)] : i \in MeasuredI}
  \cup
  {[input_i |-> Dec(-100), input_lra |-> BadValue, input_tp |-> Dec(-20),
    input_thresh |-> Dec(-260), target_offset |-> Dec(3)]}

NoJson ==
  [input_i |-> BadValue, input_lra |-> BadValue, input_tp |-> BadValue,
   input_thresh |-> BadValue, target_offset |-> BadValue]

\* What run_command() can return for the measurement pass over content c.
\* stderr is "log" (no line starts with "{"), "malformed" (a "{" line that
\* json.loads rejects), "missing_key" (an object lacking a required key) or
\* "json" (the object `json`).
AnalysisResults(c) ==
  {[returncode |-> 1, stderr |-> "log", json |-> NoJson]}
  \cup
  (IF IsMedia(c)
   THEN {[returncode |-> 0, stderr |-> k, json |-> NoJson] :
            k \in {"log", "malformed", "missing_key"}}
        \cup {[returncode |-> 0, stderr |-> "json", json |-> j] : j \in EngineJson}
   ELSE {})

\* get_loudness_stats(), from the result of run_command()
GetLoudnessStats(result) ==
  IF result.returncode # 0 THEN None
  ELSE IF result.stderr = "log" THEN None
  ELSE IF result.stderr \in {"malformed", "missing_key"} THEN None
  ELSE Some([measured_I |-> result.json.input_i,
             measured_LRA |-> result.json.input_lra,
             measured_TP |-> result.json.input_tp,
             measured_thresh |-> result.json.input_thresh,
             offset |-> result.json.target_offset])

NoFilter ==
  [I |-> NaN, LRA |-> NaN, TP |-> NaN, measured_I |-> BadValue,
   measured_LRA |-> BadValue, measured_tp |-> BadValue,
   measured_thresh |-> BadValue, offset |-> BadValue]

\* the command of the measurement pass: ffmpeg -i file ... -f null -
AnalyzeCmd(file) == [op |-> "analyze", input |-> file, output |-> <<>>]

\* apply_normalization() raises while computing the targets
ApplyRaises(st, src) ==
  /\ src # None
  /\ \/ FloatRaises(src[1].measured_I)
     \/ FloatRaises(src[1].measured_LRA)
     \/ FloatRaises(src[1].measured_TP)

\* LoudnormFilter with the standard targets whatever the reference
LoudnormFilterStandard(st, src) ==
  [I |-> Fin(LOUDNESS_TARGETS.I),
   LRA |-> Fin(LOUDNESS_TARGETS.LRA),
   TP |-> Fin(LOUDNESS_TARGETS.TP),
   measured_I |-> st.measured_I,
   measured_LRA |-> st.measured_LRA,
   measured_tp |-> st.measured_TP,
   measured_thresh |-> st.measured_thresh,
   offset |-> st.offset]

\* the loudnorm filter of the apply pass
LoudnormFilter(st, src) ==
  [I |-> IF src # None THEN ToFloat(src[1].measured_I) ELSE Fin(LOUDNESS_TARGETS.I),
   LRA |-> IF src # None THEN ToFloat(src[1].measured_LRA) ELSE Fin(LOUDNESS_TARGETS.LRA),
   TP |-> IF src # None THEN ToFloat(src[1].measured_TP) ELSE Fin(LOUDNESS_TARGETS.TP),
   measured_I |-> st.measured_I,
   measured_LRA |-> st.measured_LRA,
   measured_tp |-> st.measured_TP,
   measured_thresh |-> st.measured_thresh,
   offset |-> st.offset]

\* the command of the apply pass: ffmpeg -i input -y ... -af <filter> output
\* (the filter it carries is the variable loudnorm_filter)
ApplyCmd(input, output) == [op |-> "apply", input |-> input, output |-> output]

\* What the apply pass can do with input content c: exit 0 having written
\* the output, or exit non-zero having written nothing or a partial file.
ApplyResults(c) ==
  {[returncode |-> 1, wrote |-> "nothing"], [returncode |-> 1, wrote |-> "partial"]}
  \cup
  (IF IsMedia(c)
   THEN {[returncode |-> 0, wrote |-> "output"]}
   ELSE {})

\* ------------------------------------------------------------------ state
VARIABLES
  run,            \* invocations of the tool so far
  pc,             \* position of main()
  dry_run, yes, source_video, threshold,   \* the command line
  video_files,    \* the list built by the scan
  idx,            \* position of the loop in video_files
  source_stats,   \* None or Some(stats of the reference)
  stats,          \* None or Some(stats used for the current file)
  loudnorm_filter, \* the filter of the current file's apply command
  success_count, skipped_count, error_count,
  fs,             \* content at every path under the directory
  fs0,            \* fs when the current invocation started
  calls,          \* engine commands run by the current invocation, in order
  events,         \* <<what, file>>: what the current invocation did to which file
  prev_failed,    \* the files whose replace step failed in the previous invocation
  lines,          \* get_loudness_stats: result.stderr.strip().split("\n")
  line_no,        \* get_loudness_stats: position of `for line in lines`
  in_json,        \* get_loudness_stats: in_json
  json_lines,     \* get_loudness_stats: json_lines
  scan_pc         \* position of get_loudness_stats after run_command()

vars ==
  <<run, pc, dry_run, yes, source_video, threshold, video_files, idx,
    source_stats, stats, loudnorm_filter, success_count, skipped_count, error_count,
    fs, fs0, calls, events, prev_failed, lines, line_no, in_json, json_lines, scan_pc>>

\* the locals of get_loudness_stats that the scanner works on
scanner == <<lines, line_no, in_json, json_lines, scan_pc>>

\* what main() works on
workflow ==
  <<run, pc, dry_run, yes, source_video, threshold, video_files, idx,
    source_stats, stats, loudnorm_filter, success_count, skipped_count, error_count,
    fs, fs0, calls, events, prev_failed>>

flags == <<dry_run, yes, source_video, threshold>>

tallies == <<success_count, skipped_count, error_count>>

Exists(p) == fs[p].kind # "absent"

\* the reference may lie outside the directory
Content(p) == IF p = ExternalRef THEN Orig(ExternalRef) ELSE fs[p]

file_path == video_files[idx]

marker_file == MarkerOf(file_path)

temp_output_path == TempOf(file_path)

\* The orders in which rglob may yield the set S: by name length, shortest
\* first or longest first (either file of a pair can come first).
Orderings(S) ==
  {s \in [1..Cardinality(S) -> S] :
     \/ \A i, j \in 1..Cardinality(S) : i < j => Len(s[i]) < Len(s[j])
     \/ \A i, j \in 1..Cardinality(S) : i < j => Len(s[i]) > Len(s[j])}

\* directory.rglob("*") filtered by f.suffix.lower() in VIDEO_EXTENSIONS
Discovered(f) ==
  {p \in Paths : f[p].kind # "absent" /\ Lower(Suffix(p)) \in VIDEO_EXTENSIONS}

Thresholds == {-10, DefaultThreshold, 60}

\* what click.prompt(..., default="n") can return
Responses == {"y", "Yes", "n"}

\* a directory holding Root as r, its temporary name as t, its marker as m
Tree(r, t, m) ==
  [p \in Paths |->
      IF p = Notes THEN Orig(Notes)
      ELSE IF p = Root THEN r
      ELSE IF p = TempOf(Root) THEN t
      ELSE IF p = MarkerOf(Root) THEN m
      ELSE Absent]

\* the directory before the first invocation
InitialTrees ==
  {Tree(Orig(Root), Absent, m) : m \in {Absent, Empty}}
  \cup {Tree(Dir, Absent, Absent), Tree(Absent, Absent, Absent)}

Init ==
  /\ run = 0
  /\ pc = "idle"
  /\ dry_run \in BOOLEAN
  /\ yes \in BOOLEAN
  /\ source_video \in {<<>>, ExternalRef, Root}
  /\ threshold \in Thresholds
  /\ video_files = <<>>
  /\ idx = 0
  /\ source_stats = None
  /\ stats = None
  /\ loudnorm_filter = NoFilter
  /\ success_count = 0
  /\ skipped_count = 0
  /\ error_count = 0
  /\ fs \in InitialTrees
  /\ fs0 = fs
  /\ calls = <<>>
  /\ events = {}
  /\ prev_failed = {}
  /\ lines = <<>>
  /\ line_no = 0
  /\ in_json = FALSE
  /\ json_lines = <<>>
  /\ scan_pc = "off"

\* ----------------------------------------------------------------- actions
Finished == pc \in {"done", "returned", "exit1", "crashed"}

Did(what, f) == <<what, f>> \in events

Record(E) == events' = events \cup {<<e, file_path>> : e \in E}

\* `continue` / end of the loop body: the next file, or the summary
NextFile ==
  /\ pc' = IF idx < Len(video_files) THEN "marker" ELSE "summary"
  /\ idx' = IF idx < Len(video_files) THEN idx + 1 ELSE idx
  /\ stats' = None
  /\ loudnorm_filter' = NoFilter

\* the locals of the loop body stay as they are
SameFile == UNCHANGED <<idx, stats, loudnorm_filter>>

\* the tool is started: main() up to the ffmpeg check.  A later invocation
\* repeats the command line of the first.
Invoke ==
  /\ pc = "idle" \/ Finished
  /\ run < MaxRuns
  /\ source_video # Root \/ IsMedia(fs[Root])
  /\ run' = run + 1
  /\ video_files' = <<>>
  /\ idx' = 0
  /\ source_stats' = None
  /\ stats' = None
  /\ loudnorm_filter' = NoFilter
  /\ success_count' = 0
  /\ skipped_count' = 0
  /\ error_count' = 0
  /\ fs0' = fs
  /\ calls' = <<>>
  /\ events' = {}
  /\ prev_failed' = {f \in Videos : Did("move_failed", f)}
  /\ \E which \in BOOLEAN : pc' = IF which THEN "scan" ELSE "exit1"
  /\ UNCHANGED <<flags, fs>>
  /\ UNCHANGED scanner

\* video_files = [f for f in directory.rglob("*") if ...]
Scan ==
  /\ pc = "scan"
  /\ video_files' \in Orderings(Discovered(fs))
  /\ pc' = IF source_video # <<>> THEN "source"
           ELSE IF Len(video_files') = 0 THEN "returned"
           ELSE "marker"
  /\ idx' = IF pc' = "marker" THEN 1 ELSE 0
  /\ UNCHANGED <<run, flags, source_stats, stats, loudnorm_filter, tallies, fs, fs0,
                 calls, events, prev_failed>>
  /\ UNCHANGED scanner

\* AnalyzeSource without the exit when the reference cannot be analysed
AnalyzeSourceGoesOn ==
  /\ pc = "source"
  /\ calls' = Append(calls, AnalyzeCmd(source_video))
  /\ \E result \in AnalysisResults(Content(source_video)) :
       /\ source_stats' = GetLoudnessStats(result)
       /\ pc' = IF Len(video_files) = 0 THEN "returned" ELSE "marker"
  /\ idx' = IF pc' = "marker" THEN 1 ELSE 0
  /\ UNCHANGED <<run, flags, video_files, stats, loudnorm_filter, tallies, fs, fs0, events, prev_failed>>
  /\ UNCHANGED scanner

\* source_stats = get_loudness_stats(source_video)
AnalyzeSource ==
  /\ pc = "source"
  /\ calls' = Append(calls, AnalyzeCmd(source_video))
  /\ \E result \in AnalysisResults(Content(source_video)) :
       /\ source_stats' = GetLoudnessStats(result)
       /\ pc' = IF source_stats' = None THEN "exit1"
                ELSE IF Len(video_files) = 0 THEN "returned"
                ELSE "marker"
  /\ idx' = IF pc' = "marker" THEN 1 ELSE 0
  /\ UNCHANGED <<run, flags, video_files, stats, loudnorm_filter, tallies, fs, fs0, events, prev_failed>>
  /\ UNCHANGED scanner

\* MarkerFound without the `continue`
MarkerFoundFallsThrough ==
  /\ Exists(marker_file)
  /\ skipped_count' = skipped_count + 1
  /\ Record({"marker_skip", "skipped"})
  /\ pc' = "analyze"
  /\ SameFile
  /\ UNCHANGED <<success_count, error_count>>

\* if marker_file.exists(): skipped_count += 1; continue
MarkerFound ==
  /\ Exists(marker_file)
  /\ skipped_count' = skipped_count + 1
  /\ Record({"marker_skip", "skipped"})
  /\ NextFile
  /\ UNCHANGED <<success_count, error_count>>

\* marker_file.exists() is False
MarkerMissing ==
  /\ ~Exists(marker_file)
  /\ pc' = "analyze"
  /\ SameFile
  /\ UNCHANGED <<tallies, events>>

MarkerCheck ==
  /\ pc = "marker"
  /\ \/ MarkerFound
     \/ MarkerMissing
  /\ UNCHANGED <<run, flags, video_files, source_stats, fs, fs0, calls, prev_failed>>
  /\ UNCHANGED scanner

\* stats = source_stats
UseSourceStats ==
  /\ source_stats # None
  /\ stats' = source_stats
  /\ pc' = "threshold"
  /\ UNCHANGED <<idx, loudnorm_filter, tallies, calls, events>>

\* AnalyzeFile without the increment of the error tally
AnalyzeFileUncounted ==
  /\ source_stats = None
  /\ calls' = Append(calls, AnalyzeCmd(file_path))
  /\ \E result \in AnalysisResults(Content(file_path)) :
       LET st == GetLoudnessStats(result) IN
       IF st = None
       THEN /\ Record({"analysis_failed", "errored"})
            /\ NextFile
            /\ UNCHANGED tallies
       ELSE /\ stats' = st
            /\ pc' = "threshold"
            /\ UNCHANGED <<idx, loudnorm_filter, tallies, events>>

\* stats = get_loudness_stats(file_path); if not stats: error_count += 1; continue
AnalyzeFile ==
  /\ source_stats = None
  /\ calls' = Append(calls, AnalyzeCmd(file_path))
  /\ \E result \in AnalysisResults(Content(file_path)) :
       LET st == GetLoudnessStats(result) IN
       IF st = None
       THEN /\ error_count' = error_count + 1
            /\ Record({"analysis_failed", "errored"})
            /\ NextFile
            /\ UNCHANGED <<success_count, skipped_count>>
       ELSE /\ stats' = st
            /\ pc' = "threshold"
            /\ UNCHANGED <<idx, loudnorm_filter, tallies, events>>

\* 1. Analyze the file (or use source stats if provided)
Analyze ==
  /\ pc = "analyze"
  /\ \/ UseSourceStats
     \/ AnalyzeFile
  /\ UNCHANGED <<run, flags, video_files, source_stats, fs, fs0, prev_failed>>
  /\ UNCHANGED scanner

\* float(source_stats["measured_I"]) or float(stats["measured_I"]) raises
DiffRaises ==
  \/ source_stats # None /\ FloatRaises(source_stats[1].measured_I)
  \/ FloatRaises(stats[1].measured_I)

target_loudness ==
  IF source_stats # None THEN ToFloat(source_stats[1].measured_I)
  ELSE Fin(LOUDNESS_TARGETS.I)

loudness_diff == FAbs(FSub(ToFloat(stats[1].measured_I), target_loudness))

\* computing target_loudness or loudness_diff raises
ThresholdRaises ==
  /\ DiffRaises
  /\ pc' = "crashed"
  /\ SameFile
  /\ UNCHANGED <<tallies, events>>

\* if loudness_diff <= threshold: skipped_count += 1; continue
WithinThreshold ==
  /\ ~DiffRaises
  /\ FLeq(loudness_diff, threshold)
  /\ skipped_count' = skipped_count + 1
  /\ Record({"within", "skipped"})
  /\ NextFile
  /\ UNCHANGED <<success_count, error_count>>

\* loudness_diff <= threshold is False
ExceedsThreshold ==
  /\ ~DiffRaises
  /\ ~FLeq(loudness_diff, threshold)
  /\ Record({"exceeds"})
  /\ pc' = "confirm"
  /\ SameFile
  /\ UNCHANGED tallies

Threshold ==
  /\ pc = "threshold"
  /\ \/ ThresholdRaises
     \/ WithinThreshold
     \/ ExceedsThreshold
  /\ UNCHANGED <<run, flags, video_files, source_stats, fs, fs0, calls, prev_failed>>
  /\ UNCHANGED scanner

\* response.lower() in ('y', 'yes')
Affirmative(response) == Lower(response) \in {"y", "yes"}

\* Prompt asked whenever --yes is absent, also in a dry run
PromptInDryRun ==
  /\ ~yes
  /\ \E response \in Responses :
       IF ~Affirmative(response)
       THEN /\ skipped_count' = skipped_count + 1
            /\ Record({"prompt", "declined", "skipped"})
            /\ NextFile
            /\ UNCHANGED <<success_count, error_count>>
       ELSE /\ Record({"prompt"})
            /\ pc' = "apply"
            /\ SameFile
            /\ UNCHANGED tallies

\* if not yes and not dry_run: response = click.prompt(...)
Prompt ==
  /\ ~yes /\ ~dry_run
  /\ \E response \in Responses :
       IF ~Affirmative(response)
       THEN /\ skipped_count' = skipped_count + 1
            /\ Record({"prompt", "declined", "skipped"})
            /\ NextFile
            /\ UNCHANGED <<success_count, error_count>>
       ELSE /\ Record({"prompt"})
            /\ pc' = "apply"
            /\ SameFile
            /\ UNCHANGED tallies

\* --yes or --dry-run: no prompt
NoPrompt ==
  /\ yes \/ dry_run
  /\ pc' = "apply"
  /\ SameFile
  /\ UNCHANGED <<tallies, events>>

\* Ask for confirmation unless --yes flag is provided
Confirm ==
  /\ pc = "confirm"
  /\ \/ Prompt
     \/ NoPrompt
  /\ UNCHANGED <<run, flags, video_files, source_stats, fs, fs0, calls, prev_failed>>
  /\ UNCHANGED scanner

\* ApplySucceeded without the check of the exit code
ApplySucceededAlways(result) == TRUE

\* apply_normalization() returns True
ApplySucceeded(result) == result.returncode = 0

\* what the apply pass leaves at the output path
Written(f, input, output, result) ==
  CASE result.wrote = "output" -> [f EXCEPT ![output] = Normalized(f[input])]
    [] result.wrote = "partial" -> [f EXCEPT ![output] = Partial]
    [] OTHER -> f

\* if dry_run: success = True
DryRunApply ==
  /\ dry_run
  /\ pc' = "commit"
  /\ UNCHANGED <<loudnorm_filter, fs, calls, events>>

\* apply_normalization() raises before it runs the engine
ApplyCrashes ==
  /\ ~dry_run
  /\ ApplyRaises(stats[1], source_stats)
  /\ pc' = "crashed"
  /\ UNCHANGED <<loudnorm_filter, fs, calls, events>>

\* success = apply_normalization(file_path, temp_output_path, stats, source_stats)
RunApply ==
  /\ ~dry_run
  /\ ~ApplyRaises(stats[1], source_stats)
  /\ loudnorm_filter' = LoudnormFilter(stats[1], source_stats)
  /\ calls' = Append(calls, ApplyCmd(file_path, temp_output_path))
  /\ \E result \in ApplyResults(fs[file_path]) :
       /\ fs' = Written(fs, file_path, temp_output_path, result)
       /\ pc' = IF ApplySucceeded(result) THEN "commit" ELSE "cleanup"
       /\ Record({IF result.returncode = 0 THEN "applied" ELSE "apply_failed"}
                 \cup (IF result.wrote = "nothing" THEN {} ELSE {"wrote"}))

\* 2. Apply normalization to a temporary file (skip in dry-run)
Apply ==
  /\ pc = "apply"
  /\ \/ DryRunApply
     \/ ApplyCrashes
     \/ RunApply
  /\ UNCHANGED <<run, flags, video_files, idx, source_stats, stats, tallies, fs0, prev_failed>>
  /\ UNCHANGED scanner

\* temp_output_path.unlink(); continue
Unlink ==
  /\ ~dry_run /\ Exists(temp_output_path)
  /\ fs' = [fs EXCEPT ![temp_output_path] = Absent]
  /\ Record({"errored", "unlinked"})
  /\ NextFile

\* temp_output_path.unlink() raises
UnlinkRaises ==
  /\ ~dry_run /\ Exists(temp_output_path)
  /\ Record({"errored"})
  /\ pc' = "crashed"
  /\ SameFile
  /\ UNCHANGED fs

\* there is no temporary file to remove; continue
NothingToUnlink ==
  /\ ~(~dry_run /\ Exists(temp_output_path))
  /\ Record({"errored"})
  /\ NextFile
  /\ UNCHANGED fs

\* if not success: error_count += 1; clean up temp file on failure; continue
Cleanup ==
  /\ pc = "cleanup"
  /\ error_count' = error_count + 1
  /\ \/ Unlink
     \/ UnlinkRaises
     \/ NothingToUnlink
  /\ UNCHANGED <<run, flags, video_files, source_stats, success_count, skipped_count,
                 fs0, calls, prev_failed>>
  /\ UNCHANGED scanner

\* if dry_run: success_count += 1
DryRunCommit ==
  /\ dry_run
  /\ success_count' = success_count + 1
  /\ Record({"succeeded"})
  /\ NextFile
  /\ UNCHANGED <<fs, skipped_count, error_count>>

\* shutil.move(str(temp_output_path), str(file_path)) returns
Move ==
  /\ ~dry_run
  /\ fs' = [fs EXCEPT ![file_path] = fs[temp_output_path],
                      ![temp_output_path] = Absent]
  /\ Record({"moved"})
  /\ pc' = "touch"
  /\ SameFile
  /\ UNCHANGED tallies

\* MoveFails with the marker created although the move raised
MoveFailsTouches ==
  /\ ~dry_run
  /\ fs' = [fs EXCEPT ![marker_file] = Empty]
  /\ error_count' = error_count + 1
  /\ Record({"move_failed", "errored"})
  /\ NextFile
  /\ UNCHANGED <<success_count, skipped_count>>

\* shutil.move() raises: except Exception: error_count += 1
MoveFails ==
  /\ ~dry_run
  /\ error_count' = error_count + 1
  /\ Record({"move_failed", "errored"})
  /\ NextFile
  /\ UNCHANGED <<fs, success_count, skipped_count>>

\* 3. Replace original with normalized file (skip in dry-run)
Replace ==
  /\ pc = "commit"
  /\ \/ DryRunCommit
     \/ Move
     \/ MoveFails
  /\ UNCHANGED <<run, flags, video_files, source_stats, fs0, calls, prev_failed>>
  /\ UNCHANGED scanner

\* marker_file.touch() returns
TouchOk ==
  /\ fs' = [fs EXCEPT ![marker_file] = IF Exists(marker_file) THEN @ ELSE Empty]
  /\ Record({"marked"})
  /\ pc' = "success"
  /\ SameFile
  /\ UNCHANGED tallies

\* TouchFails with the success tallied before the touch
TouchFailsCountsSuccess ==
  /\ success_count' = success_count + 1
  /\ Record({"touch_failed", "succeeded"})
  /\ NextFile
  /\ UNCHANGED <<fs, error_count, skipped_count>>

\* marker_file.touch() raises: except Exception: error_count += 1
TouchFails ==
  /\ error_count' = error_count + 1
  /\ Record({"touch_failed", "errored"})
  /\ NextFile
  /\ UNCHANGED <<fs, success_count, skipped_count>>

\* ... and create marker
Touch ==
  /\ pc = "touch"
  /\ \/ TouchOk
     \/ TouchFails
  /\ UNCHANGED <<run, flags, video_files, source_stats, fs0, calls, prev_failed>>
  /\ UNCHANGED scanner

\* success_count += 1 (after the move and the touch)
Succeed ==
  /\ pc = "success"
  /\ success_count' = success_count + 1
  /\ Record({"succeeded"})
  /\ NextFile
  /\ UNCHANGED <<run, flags, video_files, source_stats, skipped_count, error_count,
                 fs, fs0, calls, prev_failed>>
  /\ UNCHANGED scanner

\* the final summary
Summary ==
  /\ pc = "summary"
  /\ pc' = "done"
  /\ UNCHANGED <<run, flags, video_files, idx, source_stats, stats, loudnorm_filter,
                 tallies, fs, fs0, calls, events, prev_failed>>
  /\ UNCHANGED scanner

Next ==
  \/ Invoke
  \/ Scan
  \/ AnalyzeSource
  \/ MarkerCheck
  \/ Analyze
  \/ Threshold
  \/ Confirm
  \/ Apply
  \/ Cleanup
  \/ Replace
  \/ Touch
  \/ Succeed
  \/ Summary

Spec == Init /\ [][Next]_vars

\* ---------------------------------------------- the scanner of the analyzer
\* The lines the engine prints on stderr: a log line, the braces of a
\* pretty-printed object, an indented member of it, and an object printed
\* on one line.
LineTexts == {"log", "{", "\tk", "}", "{k}"}

\* line.strip()
Strip(line) == IF line = "\tk" THEN "k" ELSE line

\* line.startswith("{")
StartsWithBrace(line) == line \in {"{", "{k}"}

\* line.endswith("}")
EndsWithBrace(line) == line \in {"}", "{k}"}

\* result.stderr.strip().split("\n"): at least one line
StderrLines == UNION {[1..n -> LineTexts] : n \in 1..MaxLines}

\* json.loads("\n".join(js)) returns an object
Loads(js) ==
  \/ js = <<"{k}">>
  \/ /\ Len(js) >= 2
     /\ js[1] = "{" /\ js[Len(js)] = "}"
     /\ \A i \in 2..(Len(js) - 1) : js[i] = "k"

\* main() has not been called
Idle ==
  /\ run = 0
  /\ pc = "idle"
  /\ dry_run = FALSE
  /\ yes = FALSE
  /\ source_video = <<>>
  /\ threshold = DefaultThreshold
  /\ video_files = <<>>
  /\ idx = 0
  /\ source_stats = None
  /\ stats = None
  /\ loudnorm_filter = NoFilter
  /\ success_count = 0
  /\ skipped_count = 0
  /\ error_count = 0
  /\ fs = Tree(Orig(Root), Absent, Absent)
  /\ fs0 = fs
  /\ calls = <<>>
  /\ events = {}
  /\ prev_failed = {}

\* get_loudness_stats() after run_command() returned with exit code 0
ScanInit ==
  /\ Idle
  /\ lines \in StderrLines
  /\ line_no = 0
  /\ in_json = FALSE
  /\ json_lines = <<>>
  /\ scan_pc = "filter"

\* json_output = [line for line in lines if line.startswith("{")];
\* if not json_output: return None
FilterLines ==
  /\ scan_pc = "filter"
  /\ scan_pc' = IF \E i \in 1..Len(lines) : StartsWithBrace(lines[i])
                THEN "loop" ELSE "none"
  /\ line_no' = 1
  /\ UNCHANGED <<lines, in_json, json_lines, workflow>>

\* one iteration of `for line in lines`
ScanLine ==
  /\ scan_pc = "loop"
  /\ line_no <= Len(lines)
  /\ LET line == Strip(lines[line_no]) IN
       IF StartsWithBrace(line)
       THEN /\ in_json' = TRUE
            /\ json_lines' = <<line>>
            /\ scan_pc' = "loop"
       ELSE IF in_json
       THEN /\ json_lines' = Append(json_lines, line)
            /\ scan_pc' = IF EndsWithBrace(line) THEN "parse" ELSE "loop"
            /\ UNCHANGED in_json
       ELSE UNCHANGED <<in_json, json_lines, scan_pc>>
  /\ line_no' = line_no + 1
  /\ UNCHANGED <<lines, workflow>>

\* the loop ran out of lines; if not json_lines: return None
EndOfLines ==
  /\ scan_pc = "loop"
  /\ line_no > Len(lines)
  /\ scan_pc' = IF json_lines = <<>> THEN "none" ELSE "parse"
  /\ UNCHANGED <<lines, line_no, in_json, json_lines, workflow>>

\* stats = json.loads(stats_str); except json.JSONDecodeError: return None
ParseJson ==
  /\ scan_pc = "parse"
  /\ scan_pc' = IF Loads(json_lines) THEN "stats" ELSE "none"
  /\ UNCHANGED <<lines, line_no, in_json, json_lines, workflow>>

ScanNext ==
  \/ FilterLines
  \/ ScanLine
  \/ EndOfLines
  \/ ParseJson

ScanSpec == ScanInit /\ [][ScanNext]_vars

\* ------------------------------------------------------------- properties
Files == {video_files[i] : i \in 1..Len(video_files)}

IndexOf(p) == CHOOSE i \in 1..Len(video_files) : video_files[i] = p

\* the loop is inside the processing step of some file
InLoop ==
  pc \in {"marker", "analyze", "threshold", "confirm", "apply", "cleanup", "commit",
          "touch", "success"}

\* the processing step of the discovered file p is over
StepDone(p) ==
  \/ pc \in {"summary", "done"}
  \/ (InLoop \/ pc = "crashed") /\ idx > 0 /\ IndexOf(p) < idx

\* the loop is inside the processing step of p
Current(p) == InLoop /\ file_path = p

Outcomes(p) == {o \in {"succeeded", "skipped", "errored"} : Did(o, p)}

\* the engine commands of this invocation that read p
CallsOn(p) == {i \in 1..Len(calls) : calls[i].input = p}

ApplyCalls == {i \in 1..Len(calls) : calls[i].op = "apply"}

\* what this invocation did for p that changes the filesystem
Mutations(p) == {e \in {"wrote", "unlinked", "moved", "marked"} : Did(e, p)}

CreatedMarker(p) ==
  fs[MarkerOf(p)].kind # "absent" /\ fs0[MarkerOf(p)].kind = "absent"

\* C1: a completion marker that did not exist before the run exists for a
\* file p only if the apply pass for p exited 0 and its temporary output was
\* moved over p, whatever the flags and the outcomes of the engine and of
\* the filesystem.
C1_MarkerInvariant ==
  \A p \in Videos :
    CreatedMarker(p) =>
      /\ Did("applied", p)
      /\ Did("moved", p)
      /\ ~dry_run

C1_Witness == \E p \in Videos : CreatedMarker(p) /\ Did("succeeded", p)

\* p was committed and marked by an earlier invocation: it holds normalized
\* content and bore its marker when this invocation started
PreviouslyProcessed(p) ==
  /\ run >= 2
  /\ fs0[MarkerOf(p)].kind # "absent"
  /\ IsMedia(fs0[p]) /\ fs0[p].norm >= 1

\* C2 as stated: on a directory whose only video was processed by an
\* earlier run, the next run performs no engine invocation, leaves the file
\* as it was, creates no temporary file and tallies one skip.
C2_Original ==
  \A p \in Videos :
    (PreviouslyProcessed(p) /\ video_files = <<p>>) =>
      /\ calls = <<>>
      /\ fs = fs0
      /\ pc = "done" => skipped_count = 1 /\ success_count = 0 /\ error_count = 0

\* C2 amended: for a file p processed by an earlier run, the marker check
\* short-circuits p's step: the only engine command that can read p is the
\* analysis of the reference (when p is the reference), p's step prompts
\* nothing and writes, deletes, moves or marks nothing, and p is tallied as
\* skipped, once, and as nothing else.
C2_Idempotent ==
  \A p \in Files :
    PreviouslyProcessed(p) =>
      /\ \A i \in CallsOn(p) : i = 1 /\ calls[i] = AnalyzeCmd(source_video)
      /\ {e \in {"prompt", "exceeds", "within", "applied", "apply_failed"} : Did(e, p)} = {}
      /\ Mutations(p) = {}
      /\ Outcomes(p) \subseteq {"skipped"}
      /\ Current(p) => pc \in {"marker"}
      /\ StepDone(p) => Did("marker_skip", p) /\ Outcomes(p) = {"skipped"}
      /\ skipped_count = Cardinality({f \in Files : Did("skipped", f)})
      /\ (pc = "done" /\ video_files = <<p>>) =>
           /\ skipped_count = 1 /\ success_count = 0 /\ error_count = 0
           /\ fs = fs0

C2_Witness ==
  \E p \in Files : PreviouslyProcessed(p) /\ Did("marker_skip", p) /\ pc = "done"

\* C3 as stated: once the apply pass for p has exited non-zero, p's step
\* ends (the run goes on) with p unmoved and unmarked, its temporary file
\* gone and p tallied as errored, once.
C3_Original ==
  \A p \in Files :
    Did("apply_failed", p) =>
      \/ Current(p) /\ pc = "cleanup"
      \/ /\ StepDone(p)
         /\ ~Did("moved", p) /\ ~Did("marked", p) /\ ~CreatedMarker(p)
         /\ ~Exists(TempOf(p))
         /\ Outcomes(p) = {"errored"}
         /\ error_count = Cardinality({f \in Files : Did("errored", f)})

\* C4: without --dry-run a file is tallied as succeeded exactly when its
\* apply pass exited 0, the move over the original returned and the marker
\* was created; where the success is tallied the original path holds the
\* normalized output, the marker exists and the temporary path is gone.
C4_SuccessfulCommit ==
  ~dry_run =>
    /\ \A p \in Files :
         /\ Did("succeeded", p) => Did("applied", p) /\ Did("moved", p) /\ Did("marked", p)
         /\ (Did("applied", p) /\ Did("moved", p) /\ Did("marked", p) /\ StepDone(p))
              => Did("succeeded", p)
    /\ success_count = Cardinality({f \in Files : Did("succeeded", f)})
    /\ pc = "commit" => fs[temp_output_path] = Normalized(fs[file_path])
    /\ pc = "success" =>
         /\ IsMedia(fs[file_path]) /\ fs[file_path].norm >= 1
         /\ Exists(marker_file)
         /\ ~Exists(temp_output_path)
         /\ Did("applied", file_path) /\ Did("moved", file_path) /\ Did("marked", file_path)

C4_Witness == ~dry_run /\ \E p \in Files : Did("succeeded", p) /\ CreatedMarker(p)

\* the measured loudness and the target are numbers the difference of which
\* is defined: not both minus infinity
C5_Defined ==
  /\ stats # None
  /\ stats[1].measured_I.k \in {"dec", "ninf"}
  /\ source_stats # None => source_stats[1].measured_I.k = "dec"

C5_Target ==
  IF source_stats # None THEN source_stats[1].measured_I.v ELSE LOUDNESS_TARGETS.I

\* |I - T| <= threshold
C5_Within ==
  /\ stats[1].measured_I.k = "dec"
  /\ stats[1].measured_I.v - C5_Target <= threshold
  /\ C5_Target - stats[1].measured_I.v <= threshold

C5_Step ==
  (pc = "threshold" /\ C5_Defined) =>
    IF C5_Within
    THEN /\ skipped_count' = skipped_count + 1
         /\ success_count' = success_count /\ error_count' = error_count
         /\ events' = events \cup {<<"within", file_path>>, <<"skipped", file_path>>}
         /\ pc' \in {"marker", "summary"}
         /\ fs' = fs /\ calls' = calls
    ELSE /\ pc' = "confirm" /\ idx' = idx
         /\ UNCHANGED <<tallies, fs, calls>>

C5_Skipped ==
  \A p \in Files :
    Did("within", p) =>
      /\ \A i \in CallsOn(p) : calls[i].op # "apply"
      /\ ~Did("prompt", p)
      /\ Mutations(p) = {}
      /\ Outcomes(p) = {"skipped"}
      /\ ~Did("marker_skip", p)

\* C5: for an unmarked file with measured loudness I and target T (the
\* standard constant, or the reference's measured loudness), |I - T| <=
\* threshold means no apply command, no prompt and no change of the
\* filesystem for the file, which is tallied as skipped; |I - T| > threshold
\* takes the file to the confirmation gate.
C5_ThresholdGating == [](C5_Skipped) /\ [][C5_Step]_vars

C5_Witness ==
  \E p \in Files : Did("within", p) /\ \E q \in Files : Did("exceeds", q)

\* C6: when the move of the temporary output over p raises, p is tallied
\* as errored and not as succeeded, no marker for p is created, the loop
\* goes on, and the next invocation does not skip p at the marker check.
C6_CommitFailure ==
  /\ \A p \in Files :
       Did("move_failed", p) =>
         /\ Outcomes(p) = {"errored"}
         /\ ~Did("marked", p) /\ ~Exists(MarkerOf(p))
         /\ StepDone(p)
         /\ error_count = Cardinality({f \in Files : Did("errored", f)})
  /\ \A p \in prev_failed :
       /\ ~Did("marker_skip", p)
       /\ (Current(p) /\ pc = "marker") => ~Exists(MarkerOf(p))
       /\ (p \in Files /\ StepDone(p)) =>
            \E e \in {"analysis_failed", "within", "exceeds"} : Did(e, p)

C6_Witness ==
  \E p \in prev_failed : p \in Files /\ StepDone(p) /\ Did("exceeds", p)

\* C7: with --dry-run, whatever the files and the engine do, there is no
\* apply command and no prompt, nothing is created, replaced or deleted, and
\* every unmarked file whose difference exceeds the threshold is tallied as
\* succeeded.
C7_DryRun ==
  dry_run =>
    /\ fs = fs0
    /\ ApplyCalls = {}
    /\ \A p \in Files :
         /\ ~Did("prompt", p)
         /\ Mutations(p) = {}
         /\ (Did("exceeds", p) /\ StepDone(p)) => Outcomes(p) = {"succeeded"}
         /\ Did("succeeded", p) => Did("exceeds", p)
    /\ success_count = Cardinality({f \in Files : Did("exceeds", f) /\ StepDone(f)})

C7_Witness == dry_run /\ ~yes /\ \E p \in Files : Did("succeeded", p)

\* the float f is the number the JSON value j denotes
SameNumber(f, j) ==
  \/ j.k = "dec" /\ f.k = "fin" /\ f.v = j.v
  \/ j.k = "ninf" /\ f.k = "ninf"

\* the filter carries the reference's values as measured input and as target
CarriesReference ==
  LET r == source_stats[1]
      f == loudnorm_filter
  IN /\ f.measured_I = r.measured_I
     /\ f.measured_LRA = r.measured_LRA
     /\ f.measured_tp = r.measured_TP
     /\ f.measured_thresh = r.measured_thresh
     /\ f.offset = r.offset
     /\ SameNumber(f.I, r.measured_I)
     /\ SameNumber(f.LRA, r.measured_LRA)
     /\ SameNumber(f.TP, r.measured_TP)

\* an apply command of this file has been run
Applying == ~dry_run /\ pc \in {"cleanup", "commit", "touch", "success"}

\* C8 as stated: with a reference, the analyzer runs on the reference only,
\* once and first, never on a discovered file, and every apply command
\* carries the reference's values as measured input and as target.
C8_Original ==
  source_video # <<>> =>
    /\ \A i \in 1..Len(calls) :
         calls[i].op = "analyze" =>
           /\ i = 1 /\ calls[i].input = source_video
           /\ calls[i].input \notin Files
    /\ Applying => CarriesReference

\* C8 amended: with a reference, the only analyzer command of the run is
\* the first command, on the reference, before any file is processed (the
\* reference may itself be a discovered file: it is never analyzed in the
\* loop), and every apply command carries the reference's values as
\* measured input and as target.
C8_ReferenceSubstitution ==
  source_video # <<>> =>
    /\ \A i \in 1..Len(calls) :
         calls[i].op = "analyze" => i = 1 /\ calls[i].input = source_video
    /\ InLoop => Len(calls) >= 1 /\ calls[1] = AnalyzeCmd(source_video)
    /\ InLoop => source_stats # None
    /\ (InLoop /\ stats # None) => stats = source_stats
    /\ Applying =>
         /\ CarriesReference
         /\ calls[Len(calls)] = ApplyCmd(file_path, temp_output_path)

C8_Witness == source_video \in Files /\ Applying /\ pc = "commit"

\* C9 as stated: past the fatal preconditions nothing aborts the run: it
\* ends with every discovered file at an outcome and the summary reported.
C9_Original ==
  (Finished /\ pc # "exit1") =>
    /\ pc \in {"done", "returned"}
    /\ \A p \in Files : Outcomes(p) # {}

\* C10 as stated: every discovered file changes exactly one of the three
\* tallies, by one, once, when its step ends; the tallies add up to the
\* number of files that have an outcome, and to the number of discovered
\* files when the run has gone through the loop and ended, by the summary
\* or by an exception that left main.
C10_Original ==
  /\ success_count = Cardinality({f \in Files : Did("succeeded", f)})
  /\ skipped_count = Cardinality({f \in Files : Did("skipped", f)})
  /\ error_count = Cardinality({f \in Files : Did("errored", f)})
  /\ \A p \in Videos : Cardinality(Outcomes(p)) <= 1
  /\ \A p \in Files : StepDone(p) => Cardinality(Outcomes(p)) = 1
  /\ InLoop => success_count + skipped_count + error_count = idx - 1
  /\ pc \in {"summary", "done", "crashed"} =>
       /\ success_count + skipped_count + error_count = Len(video_files)
       /\ \A p \in Files : Cardinality(Outcomes(p)) = 1

\* nothing of the per-file loop has happened in this invocation
Untouched ==
  /\ fs = fs0
  /\ events = {}
  /\ idx = 0 /\ stats = None
  /\ success_count = 0 /\ skipped_count = 0 /\ error_count = 0

\* the step that ends an invocation with exit status 1
C11_Exit ==
  (pc' = "exit1" /\ (pc # "exit1" \/ run' # run)) =>
    /\ fs' = fs
    /\ \/ run' = run + 1 /\ calls' = <<>>
       \/ /\ pc = "source" /\ run' = run
          /\ calls = <<>> /\ calls' = <<AnalyzeCmd(source_video)>>
          /\ source_stats' = None

ApplyInvoked(p) == Did("applied", p) \/ Did("apply_failed", p)

\* the confirmation gate let p through
GatePassed(p) == yes \/ (Did("prompt", p) /\ ~Did("declined", p))

\* what has to have happened for p when its apply command runs, and for
\* its marker to be created
C12_Order ==
  \A p \in Files :
    /\ ApplyInvoked(p) =>
         /\ ~Did("marker_skip", p)
         /\ Did("exceeds", p)
         /\ ~dry_run /\ GatePassed(p)
         /\ \E i \in CallsOn(p) : calls[i].op = "apply"
    /\ Did("moved", p) => Did("applied", p)
    /\ Did("marked", p) => Did("moved", p)
    /\ CreatedMarker(p) => Did("marked", p)

\* a step changes the content at the path of the discovered file p only if
\* it is the replace step of p, taken after p's apply command exited 0
C12_Content ==
  \A p \in Files :
    fs'[p] # fs[p] =>
      /\ pc = "commit" /\ file_path = p
      /\ Did("applied", p)
      /\ Did("moved", p)'

\* C12 as stated: for every discovered file p the apply command runs only
\* after the marker check found no marker, a profile was obtained, the
\* difference exceeded the threshold and the gate passed; the content at p
\* changes only through p's replace step, taken after a successful apply;
\* the marker is created only after the replace step succeeded.
C12_Original == [](C12_Order) /\ [][C12_Content]_vars

\* p is not the temporary output name of another discovered file
NoCollision(p) == \A q \in Files : TempOf(q) # p

\* C12_Content for the files whose name is not another file's temporary name
C12_ContentApart ==
  \A p \in Files :
    (NoCollision(p) /\ fs'[p] # fs[p]) =>
      /\ pc = "commit" /\ file_path = p
      /\ Did("applied", p)
      /\ Did("moved", p)'

C12_Apart == [](C12_Order) /\ [][C12_ContentApart]_vars

\* the results of the measurement pass that are one of the listed failures
FailedAnalyses ==
  {r \in UNION {AnalysisResults(c) : c \in {Orig(Root), Absent, Dir, Partial}} :
     r.returncode # 0 \/ r.stderr \in {"log", "malformed", "missing_key"}}

\* the step in which the analysis of the current file fails
C13_Step ==
  (pc = "analyze" /\ source_video = <<>> /\ <<"analysis_failed", file_path>> \in events') =>
    /\ error_count' = error_count + 1
    /\ success_count' = success_count /\ skipped_count' = skipped_count
    /\ fs' = fs
    /\ calls' = Append(calls, AnalyzeCmd(file_path))
    /\ pc' = IF idx < Len(video_files) THEN "marker" ELSE "summary"
    /\ idx < Len(video_files) => idx' = idx + 1

\* nothing changes the filesystem between the start of a file's step and the
\* end of its analysis
C13_Frame == pc \in {"marker", "analyze"} => fs' = fs

C13_Failed ==
  /\ \A r \in FailedAnalyses : GetLoudnessStats(r) = None
  /\ source_video = <<>> =>
       \A p \in Files :
         Did("analysis_failed", p) =>
           /\ StepDone(p)
           /\ Outcomes(p) = {"errored"}
           /\ error_count = Cardinality({f \in Files : Did("errored", f)})
           /\ \A i \in CallsOn(p) : calls[i] = AnalyzeCmd(p)
           /\ Cardinality(CallsOn(p)) = 1
           /\ ~ApplyInvoked(p)
           /\ Mutations(p) = {}
           /\ ~CreatedMarker(p)
           /\ ~Did("prompt", p)

\* C13: without a reference, when the analyzer fails on p (non-zero exit,
\* no line beginning with "{", unparseable JSON, a required key missing) it
\* returns no result without raising; p is tallied as errored, once; there
\* is no apply command for p; p's step creates no marker and no temporary
\* file and leaves the filesystem as it was; the loop goes on to the next
\* file.
C13_AnalysisFailure == [](C13_Failed) /\ [][C13_Step /\ C13_Frame]_vars

C13_Witness ==
  \E p \in Files :
    /\ source_video = <<>>
    /\ Did("analysis_failed", p) /\ IsMedia(fs[p])
    /\ pc = "marker" /\ IndexOf(p) = idx - 1

\* x > t for a finite t (False for nan)
FGreater(x, t) ==
  CASE x.k = "fin" -> x.v > t
    [] x.k = "pinf" -> TRUE
    [] OTHER -> FALSE

\* the prompt is about to be issued, or not, for the current file
C14_Gate ==
  (pc = "confirm" /\ ~yes /\ ~dry_run) =>
    /\ ~Exists(marker_file) /\ ~Did("marker_skip", file_path)
    /\ stats # None
    /\ FGreater(loudness_diff, threshold)

C14_Prompted ==
  \A p \in Files :
    /\ Did("prompt", p) => ~yes /\ ~dry_run /\ Did("exceeds", p) /\ ~Did("marker_skip", p)
    /\ Did("declined", p) =>
         /\ Did("prompt", p)
         /\ Outcomes(p) = {"skipped"}
         /\ ~ApplyInvoked(p)
         /\ Mutations(p) = {}
    /\ (ApplyInvoked(p) /\ ~yes) => Did("prompt", p) /\ ~Did("declined", p)

\* the step of the confirmation gate
C14_Step ==
  pc = "confirm" =>
    /\ <<"prompt", file_path>> \in events' <=> (~yes /\ ~dry_run)
    /\ fs' = fs /\ calls' = calls
    /\ IF <<"declined", file_path>> \in events'
       THEN /\ skipped_count' = skipped_count + 1
            /\ success_count' = success_count /\ error_count' = error_count
            /\ pc' \in {"marker", "summary"}
       ELSE /\ pc' = "apply" /\ idx' = idx
            /\ UNCHANGED tallies

\* C14 as stated: the prompt is issued exactly for the unmarked files with
\* a measured profile whose difference exceeds the threshold, when neither
\* --yes nor --dry-run is given; a response other than y / yes (whatever
\* the case) tallies the file as skipped with no apply command and no
\* change of the filesystem; y / yes goes on to the apply step.
C14_Original == [](C14_Gate /\ C14_Prompted) /\ [][C14_Step]_vars

\* C14 with "exceeds the threshold" taken as the code's test, the
\* negation of loudness_diff <= threshold
C14_GateAsCoded ==
  /\ [](pc = "confirm" => stats # None /\ ~FLeq(loudness_diff, threshold)
                          /\ ~Exists(marker_file))
  /\ [](C14_Prompted) /\ [][C14_Step]_vars

\* n log lines
LogLines(n) == [i \in 1..n |-> "log"]

\* the objects the engine prints: on one line, or pretty-printed over
\* 2 + n lines
JsonObjects ==
  {<<"{k}">>} \cup {<<"{">> \o [i \in 1..n |-> "\tk"] \o <<"}">> : n \in 0..(MaxLines - 2)}

\* the scanner has left its loop
Scanned == scan_pc \in {"parse", "stats", "none"}

\* C15 as stated: on log lines, then one object (on one line, or from a
\* line "{" to a line "}"), then log lines, the scanner keeps exactly the
\* lines of the object.
C15_Original ==
  \A obj \in JsonObjects : \A a, b \in 0..MaxLines :
    (lines = LogLines(a) \o obj \o LogLines(b) /\ Scanned) =>
      /\ scan_pc # "none"
      /\ json_lines = [i \in 1..Len(obj) |-> Strip(obj[i])]

\* what holds: a pretty-printed object is extracted whatever surrounds it,
\* and an object on one line when it is the last line
C15_Extracted ==
  \A obj \in JsonObjects : \A a, b \in 0..MaxLines :
    (lines = LogLines(a) \o obj \o LogLines(b) /\ Scanned /\ (Len(obj) > 1 \/ b = 0)) =>
      /\ scan_pc # "none"
      /\ json_lines = [i \in 1..Len(obj) |-> Strip(obj[i])]

\* the regular files under the directory whose extension, in lower case, is
\* in the allow-list
RegularVideos(f) ==
  {p \in Paths : f[p].kind \in {"file", "partial"} /\ Lower(Suffix(p)) \in VIDEO_EXTENSIONS}

\* the scan lists every path once
C16_Listed ==
  /\ Len(video_files') = Cardinality(Files')
  /\ fs' = fs

\* C16 as stated: the candidates are exactly the regular files under the
\* directory whose extension, compared without case, is in the allow-list;
\* a directory or a file with another extension is no candidate; the scan
\* changes nothing.
C16_Original ==
  [][pc = "scan" => C16_Listed /\ Files' = RegularVideos(fs)]_vars

\* what holds: the candidates are the entries, files or directories, whose
\* name has an allow-listed extension
C16_Entries ==
  [][pc = "scan" =>
       /\ C16_Listed
       /\ Files' = {p \in Paths : Exists(p) /\ Lower(Suffix(p)) \in VIDEO_EXTENSIONS}
       /\ RegularVideos(fs) \subseteq Files'
       /\ Notes \notin Files']_vars

\* C17 as stated: a step of the processing of p leaves the content at the
\* path of every other discovered file as it was, also when another
\* discovered file bears p's temporary output name.
C17_Original ==
  [][InLoop => \A q \in Files : q # file_path => fs'[q] = fs[q]]_vars

\* what holds: a step of the processing of p changes at most p, p's marker
\* and p's temporary output name
C17_Footprint ==
  [][InLoop => \A q \in Paths :
       q \notin {file_path, marker_file, temp_output_path} => fs'[q] = fs[q]]_vars

\* C18 as stated: once the step of p has ended with an outcome, the
\* temporary output written for p in this invocation is gone, also when the
\* replace step failed; at the summary no temporary file of the run is left.
C18_Original ==
  \A p \in Files :
    (StepDone(p) /\ Outcomes(p) # {} /\ Did("wrote", p)) => ~Exists(TempOf(p))

\* what holds: the temporary output is gone unless the move raised
C18_UnlessMoveFailed ==
  \A p \in Files :
    (StepDone(p) /\ Outcomes(p) # {} /\ Did("wrote", p) /\ ~Did("move_failed", p))
      => ~Exists(TempOf(p))

\* C19 as stated: a file counted as errored (its analysis failed, its apply
\* pass failed, or the move or the marker creation raised) holds, at its
\* original path, the content it held when the run started.
C19_Original ==
  \A p \in Files : Did("errored", p) => fs[p] = fs0[p]

\* what holds: an errored file whose move did not happen, and whose name
\* is not another file's temporary name, is as it was
C19_NotMoved ==
  \A p \in Files :
    (Did("errored", p) /\ ~Did("moved", p) /\ NoCollision(p)) => fs[p] = fs0[p]

\* the file was replaced, its marker creation raised, and it is counted as
\* errored
C19_Replaced ==
  \E p \in Files :
    /\ Did("errored", p) /\ Did("touch_failed", p) /\ Did("moved", p)
    /\ fs[p] = Normalized(fs0[p]) /\ ~Exists(MarkerOf(p))

\* with a reference and a threshold >= 0: the difference is 0 at the
\* threshold check, nothing exceeds, nothing is applied, nothing changes,
\* and the files whose step is over were skipped
C20_NothingApplied ==
  /\ (pc = "threshold" /\ ~DiffRaises) => loudness_diff = Fin(0)
  /\ ApplyCalls = {}
  /\ fs = fs0
  /\ \A p \in Files :
       /\ ~Did("exceeds", p) /\ ~Did("prompt", p)
       /\ Outcomes(p) \subseteq {"skipped"}
       /\ (StepDone(p) /\ pc \in {"summary", "done"}) => Outcomes(p) = {"skipped"}

\* C20 as stated: with a reference and a threshold >= 0 the difference
\* computed for every unmarked file is 0, every file is tallied as skipped,
\* no apply command is run and no file is created or changed.
C20_Original ==
  (source_video # <<>> /\ threshold >= 0) => C20_NothingApplied

\* what holds: the same when the reference's measured loudness is finite
C20_FiniteReference ==
  (source_video # <<>> /\ threshold >= 0
     /\ source_stats # None /\ source_stats[1].measured_I.k = "dec")
    => C20_NothingApplied

====
